---- MODULE Spec2Model ----
(***************************************************************************)
(* Model of the letsdebug core: the CAA authorization evaluator            *)
(* (src/generic.go, caaChecker.Check) and the validation-fetch simulator   *)
(* (src/unnamed/part_000, checkHTTP / translateHTTPError).                 *)
(*                                                                         *)
(* Strings are modelled as sequences of tokens.  A domain name is the      *)
(* sequence of its labels (the "." separators are implicit, and a leading  *)
(* label "*" is the "*." wildcard marker).  A CAA value is a sequence over *)
(* ValueTokens, where the token "letsencrypt.org" stands for exactly that  *)
(* text and no other tokens concatenate to it.  A formatted message        *)
(* (fmt.Sprintf) is the record of its format and its arguments.            *)
(***************************************************************************)
EXTENDS Integers, Sequences, FiniteSets, TLC

VARIABLES
    \* ---- caaChecker.Check ----
    input,      \* the domain argument of the outermost Check call
    stack,      \* the call stack of Check: one frame per active invocation
    pc,         \* position of the innermost invocation
    ret,        \* the value ([]Problem, error) being returned by the innermost invocation
    lookups,    \* history: every ctx.Lookup call made, in order, with its result
    evals,      \* history: every record evaluation (lines 30-79) made, in order
    \* ---- checkHTTP ----
    hpc,        \* position of checkHTTP / of the http.Client inside cl.Do
    hdomain,    \* the domain argument
    address,    \* the address argument (net.IP)
    req,        \* the request the client is about to send (its URL)
    via,        \* the requests already made (the code reads only their number)
    redirErr,   \* the captured redirectError ("" when none)
    hops,       \* history: the number of redirect responses the client received
    policyLog,  \* history: every non-nil error returned by CheckRedirect
    resp,       \* the response the client holds (NoResp when none)
    clErr,      \* the error returned by cl.Do (NoErr when nil)
    dials,      \* history: every (addr asked by the transport, target dialed)
    checkRes,   \* the httpCheckResult being built
    problem,    \* the Problem returned by checkHTTP
    \* ---- extractIssuerDomain ----
    xpc,        \* position of the call
    caaValue,   \* the CAA value argument
    extracted,  \* the returned issuer domain
    authorized  \* whether a record with this value passes the test of line 71

caaVars  == <<input, stack, pc, ret, lookups, evals>>
httpVars == <<hpc, hdomain, address, req, via, redirErr, hops, policyLog, resp, clErr,
              dials, checkRes, problem>>
exVars == <<xpc, caaValue, extracted, authorized>>
vars == <<input, stack, pc, ret, lookups, evals,
          hpc, hdomain, address, req, via, redirErr, hops, policyLog, resp, clErr,
          dials, checkRes, problem, xpc, caaValue, extracted, authorized>>

\* ------------------------------------------------------------------------
\* Bounds of the model
\* ------------------------------------------------------------------------
\* longest input name, in labels (without the wildcard marker)
MaxLabels == 4
\* longest record list a lookup returns
MaxRecords == 2

\* ------------------------------------------------------------------------
\* Common values
\* ------------------------------------------------------------------------
NoErr == [kind |-> "nil"]
SeverityFatal == "Fatal"
SeverityError == "Error"

\* ------------------------------------------------------------------------
\* Domain names and the public suffix list
\* ------------------------------------------------------------------------
ComLabel(k) ==
    IF k = 1 THEN "com" ELSE IF k = 2 THEN "example" ELSE IF k = 3 THEN "b"
    ELSE IF k = 4 THEN "a" ELSE "w"
UkLabel(k) ==
    IF k = 1 THEN "uk" ELSE IF k = 2 THEN "co" ELSE IF k = 3 THEN "example"
    ELSE IF k = 4 THEN "a" ELSE "w"
\* the name of n labels under com / under co.uk: a.b.example.com, a.example.co.uk
ComName(n) == [i \in 1..n |-> ComLabel(n - i + 1)]
UkName(n)  == [i \in 1..n |-> UkLabel(n - i + 1)]
PlainNames ==
    {ComName(n) : n \in 1..MaxLabels} \cup {UkName(n) : n \in 1..MaxLabels}
    \cup {<<"localhost">>}
InputDomains == PlainNames \cup {<<"*">> \o d : d \in PlainNames}

\* the rules of the public suffix list that matter for these names
SuffixRules == {<<"com">>, <<"uk">>, <<"co", "uk">>}
Suffixes(d) == {SubSeq(d, i, Len(d)) : i \in 1..Len(d)}
\* publicsuffix.PublicSuffix: the longest matching rule, and the last label
\* (the default rule "*") when no rule matches
PublicSuffix(d) ==
    LET matching == Suffixes(d) \cap SuffixRules
    IN IF matching = {} THEN SubSeq(d, Len(d), Len(d))
       ELSE CHOOSE s \in matching : \A t \in matching : Len(t) <= Len(s)

\* ------------------------------------------------------------------------
\* CAA records and lookup results
\* ------------------------------------------------------------------------
LE == "letsencrypt.org"
ValueTokens == {LE, "x", ";", " ", "\t", "validationmethods=http-01"}
IssueValues == { <<LE>>, <<"x">>, <<" ", LE, ";", " ", "x">> }

CAARecords ==
       [isCAA : {TRUE}, Tag : {"issue", "issuewild"}, Flag : {0, 1}, Value : IssueValues]
  \cup [isCAA : {TRUE}, Tag : {"iodef"}, Flag : {0, 1}, Value : {<<"x">>}]
  \cup [isCAA : {TRUE}, Tag : {"foo"}, Flag : {0, 1, 129}, Value : {<<"x">>}]
\* a resource record of another type in the answer (the rr.(*dns.CAA) assertion fails)
OtherRecord == [isCAA |-> FALSE, Tag |-> "", Flag |-> 0, Value |-> <<>>]
Records == CAARecords \cup {OtherRecord}
RecordLists == UNION {[1..n -> Records] : n \in 0..MaxRecords}

LookupErrors == {[kind |-> "notfound"], [kind |-> "servfail"]}
\* what ctx.Lookup(domain, dns.TypeCAA) can return
LookupResults ==
    [rrs : RecordLists, err : {NoErr}] \cup [rrs : {<<>>}, err : LookupErrors]

\* ------------------------------------------------------------------------
\* caaChecker.Check: pure parts
\* ------------------------------------------------------------------------
RECURSIVE IndexOf(_, _, _)
\* strings.Index from position i: the first position of token c in s, 0 when absent
IndexOf(s, c, i) ==
    IF i > Len(s) THEN 0 ELSE IF s[i] = c THEN i ELSE IndexOf(s, c, i + 1)

RECURSIVE TrimLeft(_)
TrimLeft(s) ==
    IF s # <<>> /\ Head(s) \in {" ", "\t"} THEN TrimLeft(Tail(s)) ELSE s
RECURSIVE TrimRight(_)
TrimRight(s) ==
    IF s # <<>> /\ s[Len(s)] \in {" ", "\t"} THEN TrimRight(SubSeq(s, 1, Len(s) - 1)) ELSE s
\* faulty variant: only the leading cutset is removed
Trim_LeftOnly(s) == TrimLeft(s)

\* strings.Trim(s, " \t")
Trim(s) == TrimRight(TrimLeft(s))

\* strings.SplitN(value, ";", 2)[0]
BeforeSemicolon(value) ==
    LET i == IndexOf(value, ";", 1)
    IN IF i = 0 THEN value ELSE SubSeq(value, 1, i - 1)

extractIssuerDomain(value) == Trim(BeforeSemicolon(value))

\* strings.HasPrefix(domain, "*.")
HasWildcardPrefix(domain) == Len(domain) >= 2 /\ domain[1] = "*"
\* domain[2:] when the prefix is there
StripWildcard(domain) == IF HasWildcardPrefix(domain) THEN Tail(domain) ELSE domain

\* the filter selecting from rrs, in order
RECURSIVE SelectSeq2(_, _)
SelectSeq2(s, T) ==
    IF s = <<>> THEN <<>>
    ELSE IF Head(s) \in T THEN <<Head(s)>> \o SelectSeq2(Tail(s), T)
    ELSE SelectSeq2(Tail(s), T)
Range(s) == {s[i] : i \in 1..Len(s)}

\* line 50: the default case of the tag switch
IsCriticalFlag(flag) == flag = 1

IssueOf(rrs)     == SelectSeq2(rrs, {r \in Range(rrs) : r.isCAA /\ r.Tag = "issue"})
IssuewildOf(rrs) == SelectSeq2(rrs, {r \in Range(rrs) : r.isCAA /\ r.Tag = "issuewild"})
CriticalUnknownOf(rrs) ==
    SelectSeq2(rrs, {r \in Range(rrs) :
        r.isCAA /\ r.Tag \notin {"issue", "issuewild", "iodef"} /\ IsCriticalFlag(r.Flag)})

\* collateRecords: the records' presentation forms joined by newlines
collateRecords(records) == records

caaCriticalUnknown(domain, wildcard, records) ==
    [Name |-> "CaaCriticalUnknown", Domain |-> domain, Wildcard |-> wildcard,
     Detail |-> collateRecords(records), Severity |-> SeverityFatal]

caaIssuanceNotAllowed(domain, wildcard, records) ==
    [Name |-> "CaaIssuanceNotAllowed", Domain |-> domain, Wildcard |-> wildcard,
     Detail |-> collateRecords(records), Severity |-> SeverityFatal]

\* the DNS-lookup-failed diagnostic for a name, a record type and the lookup's error
dnsLookupFailed(domain, rrType, err) ==
    [Name |-> "DNSLookupFailed", Domain |-> domain, Wildcard |-> FALSE,
     Detail |-> <<rrType, err>>, Severity |-> "Unspecified"]

\* lines 65-68
SelectRecords(wildcard, issue, issuewild) ==
    IF wildcard /\ Len(issuewild) > 0 THEN issuewild ELSE issue

\* lines 70-74
NamesIssuer(records) ==
    \E i \in 1..Len(records) : extractIssuerDomain(records[i].Value) = <<LE>>

\* faulty variant: the early return of lines 61-63 is missing
EvaluateRecords_NoEarlyReturn(domain, wildcard, rrs) ==
    LET issue == IssueOf(rrs)
        issuewild == IssuewildOf(rrs)
        criticalUnknown == CriticalUnknownOf(rrs)
        records == SelectRecords(wildcard, issue, issuewild)
    IN IF Len(criticalUnknown) > 0
         THEN <<caaCriticalUnknown(domain, wildcard, criticalUnknown)>>
       ELSE IF NamesIssuer(records) THEN <<>>
       ELSE <<caaIssuanceNotAllowed(domain, wildcard, records)>>

\* lines 30-79: the Problems returned when rrs is not empty
EvaluateRecords(domain, wildcard, rrs) ==
    LET issue == IssueOf(rrs)
        issuewild == IssuewildOf(rrs)
        criticalUnknown == CriticalUnknownOf(rrs)
        records == SelectRecords(wildcard, issue, issuewild)
    IN IF Len(criticalUnknown) > 0
         THEN <<caaCriticalUnknown(domain, wildcard, criticalUnknown)>>
       ELSE IF Len(issue) = 0 /\ ~wildcard THEN <<>>
       ELSE IF NamesIssuer(records) THEN <<>>
       ELSE <<caaIssuanceNotAllowed(domain, wildcard, records)>>

\* faulty variant: the lookup error is dropped and an empty list returned
LookupFailedReturn_Swallowed(domain, err) ==
    [probs |-> <<>>, err |-> NoErr]

\* faulty variant: the lookup error is returned as the evaluator's error
LookupFailedReturn_AsError(domain, err) ==
    [probs |-> <<>>, err |-> err]

\* lines 24-27: the return value on a lookup error
LookupFailedReturn(domain, err) ==
    [probs |-> <<dnsLookupFailed(domain, "CAA", err)>>, err |-> NoErr]

\* faulty variant: only issue and issuewild records make a level terminal
HasRecords_OnlyIssuance(rrs) ==
    \E i \in 1..Len(rrs) : rrs[i].isCAA /\ rrs[i].Tag \in {"issue", "issuewild"}

\* faulty variant: the length test is missing
HasRecords_Always(rrs) == Len(rrs) >= 0

\* line 30
HasRecords(rrs) == Len(rrs) > 0

\* faulty variant: the walk goes on to the last label
AtPublicSuffix_TopLabel(domain) == Len(domain) = 1

\* line 83
AtPublicSuffix(domain) == domain = PublicSuffix(domain)

\* lines 84-86: the argument of the recursive call
ParentArgument(domain) == Tail(domain)

\* faulty variant: the parent's diagnostics are appended twice
AfterParent_Duplicating(probs, parentDomain, parentRet) ==
    IF parentRet.err # NoErr
      THEN [probs |-> <<>>,
            err |-> [kind |-> "wrapped", domain |-> parentDomain, cause |-> parentRet.err]]
      ELSE [probs |-> probs \o parentRet.probs \o parentRet.probs, err |-> NoErr]

\* lines 86-91: what the caller returns given the parent's return value
AfterParent(probs, parentDomain, parentRet) ==
    IF parentRet.err # NoErr
      THEN [probs |-> <<>>,
            err |-> [kind |-> "wrapped", domain |-> parentDomain, cause |-> parentRet.err]]
      ELSE [probs |-> probs \o parentRet.probs, err |-> NoErr]

\* ------------------------------------------------------------------------
\* caaChecker.Check: the state machine
\* ------------------------------------------------------------------------
Frame(arg) ==
    [arg |-> arg, domain |-> StripWildcard(arg), wildcard |-> HasWildcardPrefix(arg),
     rrs |-> <<>>, probs |-> <<>>]
Top == stack[Len(stack)]
NoRet == [probs |-> <<>>, err |-> NoErr]

CaaInit ==
    /\ input \in InputDomains
    /\ stack = <<Frame(input)>>
    /\ pc = "lookup"
    /\ ret = NoRet
    /\ lookups = <<>>
    /\ evals = <<>>

\* lines 15-27: strip the wildcard marker, look the name up, return on an error
Lookup ==
    /\ pc = "lookup"
    /\ \E res \in LookupResults :
         /\ lookups' = Append(lookups, [name |-> Top.domain, res |-> res])
         /\ IF res.err # NoErr
              THEN /\ ret' = LookupFailedReturn(Top.domain, res.err)
                   /\ pc' = "return"
                   /\ stack' = stack
              ELSE /\ stack' = [stack EXCEPT ![Len(stack)].rrs = res.rrs]
                   /\ pc' = IF HasRecords(res.rrs) THEN "evaluate" ELSE "walk"
                   /\ ret' = ret
    /\ UNCHANGED <<input, evals>>
    /\ UNCHANGED httpVars
    /\ UNCHANGED exVars

\* lines 30-79: records were found at this level
Evaluate ==
    /\ pc = "evaluate"
    /\ evals' = Append(evals, [domain |-> Top.domain, wildcard |-> Top.wildcard,
                               rrs |-> Top.rrs])
    /\ ret' = [probs |-> EvaluateRecords(Top.domain, Top.wildcard, Top.rrs),
               err |-> NoErr]
    /\ pc' = "return"
    /\ UNCHANGED <<input, stack, lookups>>
    /\ UNCHANGED httpVars
    /\ UNCHANGED exVars

\* lines 83-86: no records here and below the public suffix: call Check on the parent
Recurse ==
    /\ pc = "walk"
    /\ ~AtPublicSuffix(Top.domain)
    /\ stack' = Append(stack, Frame(ParentArgument(Top.domain)))
    /\ pc' = "lookup"
    /\ UNCHANGED <<input, ret, lookups, evals>>
    /\ UNCHANGED httpVars
    /\ UNCHANGED exVars

\* lines 83, 94: no records here, at the public suffix
ReturnAtSuffix ==
    /\ pc = "walk"
    /\ AtPublicSuffix(Top.domain)
    /\ ret' = [probs |-> Top.probs, err |-> NoErr]
    /\ pc' = "return"
    /\ UNCHANGED <<input, stack, lookups, evals>>
    /\ UNCHANGED httpVars
    /\ UNCHANGED exVars

\* lines 86-94: the recursive call returns into its caller, which returns in turn
ReturnToCaller ==
    /\ pc = "return"
    /\ Len(stack) > 1
    /\ LET caller == stack[Len(stack) - 1]
       IN ret' = AfterParent(caller.probs, Top.domain, ret)
    /\ stack' = SubSeq(stack, 1, Len(stack) - 1)
    /\ UNCHANGED <<input, pc, lookups, evals>>
    /\ UNCHANGED httpVars
    /\ UNCHANGED exVars

\* the outermost call returns
ReturnResult ==
    /\ pc = "return"
    /\ Len(stack) = 1
    /\ pc' = "done"
    /\ UNCHANGED <<input, stack, ret, lookups, evals>>
    /\ UNCHANGED httpVars
    /\ UNCHANGED exVars

CaaNext ==
    \/ Lookup
    \/ Evaluate
    \/ Recurse
    \/ ReturnAtSuffix
    \/ ReturnToCaller
    \/ ReturnResult

\* ------------------------------------------------------------------------
\* checkHTTP: values
\* ------------------------------------------------------------------------
httpTimeout == 10

\* net.IP values: a 4-byte IPv4 address, the 16-byte form of an IPv4 address, an
\* IPv6 address
Addresses == {[form |-> "v4", text |-> "192.0.2.1"],
              [form |-> "v4in6", text |-> "192.0.2.1"],
              [form |-> "v6", text |-> "2001:db8::1"]}
\* address.To4() == nil
To4IsNil(a) == a.form = "v6"
\* address.String()
IPString(a) == a.text

NoPort == "none"
Ports == {NoPort, "80", "443", "8080"}
Schemes == {"http", "https", "ftp", "HTTP"}
Hostnames == {<<"example", "com">>, <<"other", "org">>, <<"example", "com", "well-known">>}
\* a URL: scheme://hostname[:port]/...
URLs == [scheme : Schemes, hostname : Hostnames, port : Ports]
FetchDomains == {<<"example", "com">>, <<"bad domain">>}

\* strconv.Atoi on the port texts of the model
Atoi(p) == IF p = "80" THEN 80 ELSE IF p = "443" THEN 443 ELSE IF p = "8080" THEN 8080 ELSE 0
\* strings.ToLower on the schemes of the model
ToLower(s) ==
    IF s = "HTTP" THEN "http" ELSE IF s = "HTTPS" THEN "https" ELSE IF s = "FTP" THEN "ftp"
    ELSE s
\* url.String()
URLString(u) == u
\* net.SplitHostPort(req.URL.Host): fails when the host carries no port
HostHasPort(u) == u.port # NoPort
\* faulty variant: the whole hostname is compared instead of its suffix
HasWellKnownSuffix_Exact(hostname) == hostname = <<"well-known">>

\* strings.HasSuffix(req.URL.Hostname(), ".well-known")
HasWellKnownSuffix(hostname) == Len(hostname) >= 2 /\ hostname[Len(hostname)] = "well-known"

\* the address the transport asks DialContext for: host:port, the port defaulted
\* from the scheme when the URL has none
CanonicalAddr(u) ==
    [host |-> u.hostname,
     port |-> IF u.port # NoPort THEN u.port ELSE IF u.scheme = "https" THEN "443" ELSE "80"]

NoResp == [StatusCode |-> 0, Server |-> "", present |-> FALSE]
FinalResponses == [StatusCode : {200, 404}, Server : {"", "nginx"}, present : {TRUE}]
RedirectResponses == [StatusCode : {302}, Server : {"", "nginx"}, present : {TRUE}]

\* the empty redirectError
NoRedirErr == [fmt |-> "", args |-> <<>>]
\* a piece of text: a format with its arguments; Lit is a literal piece
Lit(text) == [fmt |-> text, args |-> <<>>]
MismatchSignature == Lit("http: server gave HTTP response to HTTPS client")

\* the text of an error (e.Error()), as a sequence of tokens
RECURSIVE ErrorText(_)
ErrorText(e) ==
    IF e.kind = "redirectError" THEN <<e.msg>>
    ELSE IF e.kind = "urlError"
      THEN <<[fmt |-> "Get %q: ", args |-> <<e.url>>]>> \o ErrorText(e.cause)
    ELSE e.text

\* the errors the transport can fail with
DialErrors(target) ==
    {[kind |-> "netError",
      text |-> <<[fmt |-> "dial tcp %s: ", args |-> <<target>>], Lit("i/o timeout")>>],
     [kind |-> "netError",
      text |-> <<[fmt |-> "dial tcp %s: ", args |-> <<target>>], Lit("connection refused")>>]}
ReadErrors(u) ==
    {[kind |-> "netError", text |-> <<Lit("context deadline exceeded")>>],
     [kind |-> "netError", text |-> <<Lit("EOF")>>]}
    \cup (IF u.scheme = "https"
            THEN {[kind |-> "netError", text |-> <<MismatchSignature>>]} ELSE {})

\* the url.Error the client wraps every error of Do in
UrlError(u, cause) == [kind |-> "urlError", url |-> URLString(u), cause |-> cause]

\* ------------------------------------------------------------------------
\* checkHTTP: pure parts
\* ------------------------------------------------------------------------
\* faulty variant: the dial goes to the host the transport asks for
DialTarget_Resolving(addr, a) ==
    <<addr.host, ":", addr.port>>

\* lines 54-60: the target DialContext dials for the address the transport asks for
DialTarget(addr, a) ==
    IF To4IsNil(a) THEN <<"[", IPString(a), "]:", addr.port>>
    ELSE <<IPString(a), ":", addr.port>>

\* faulty variant: the hop limit is off by one
TooManyRedirects_Eleven(n) == n > 10

\* line 67
TooManyRedirects(n) == n >= 10

\* faulty variant: the scheme is checked before the port
CheckRedirect_SchemeFirst(u, n) ==
    IF TooManyRedirects(n)
      THEN [fmt |-> "Too many (%d) redirects, last redirect was to: %s",
            args |-> <<n, URLString(u)>>]
    ELSE IF ToLower(u.scheme) # "http" /\ ToLower(u.scheme) # "https"
      THEN [fmt |-> "Bad scheme provided when fetching %s: %s",
            args |-> <<URLString(u), ToLower(u.scheme)>>]
    ELSE IF HostHasPort(u) /\ Atoi(u.port) # 80 /\ Atoi(u.port) # 443
      THEN [fmt |-> "Bad port number provided when fetching %s: %s",
            args |-> <<URLString(u), u.port>>]
    ELSE IF HasWellKnownSuffix(u.hostname)
      THEN [fmt |-> "It appears that a redirect was generated by your web server that is missing a trailing slash after your domain name: %v. Check your web server configuration and .htaccess for Redirect/RedirectMatch/RewriteRule.",
            args |-> <<URLString(u)>>]
    ELSE NoRedirErr

\* lines 66-95: the redirect policy: the message of the violated rule, NoRedirErr when
\* the hop is accepted
CheckRedirect(u, n) ==
    IF TooManyRedirects(n)
      THEN [fmt |-> "Too many (%d) redirects, last redirect was to: %s",
            args |-> <<n, URLString(u)>>]
    ELSE IF HostHasPort(u) /\ Atoi(u.port) # 80 /\ Atoi(u.port) # 443
      THEN [fmt |-> "Bad port number provided when fetching %s: %s",
            args |-> <<URLString(u), u.port>>]
    ELSE IF ToLower(u.scheme) # "http" /\ ToLower(u.scheme) # "https"
      THEN [fmt |-> "Bad scheme provided when fetching %s: %s",
            args |-> <<URLString(u), ToLower(u.scheme)>>]
    ELSE IF HasWellKnownSuffix(u.hostname)
      THEN [fmt |-> "It appears that a redirect was generated by your web server that is missing a trailing slash after your domain name: %v. Check your web server configuration and .htaccess for Redirect/RedirectMatch/RewriteRule.",
            args |-> <<URLString(u)>>]
    ELSE NoRedirErr

redirectError(msg) == [kind |-> "redirectError", msg |-> msg]

\* an empty Problem{}
NoProblem == [Name |-> "", Detail |-> <<>>, Severity |-> ""]

badRedirect(domain, err) ==
    [Name |-> "BadRedirect", Detail |-> ErrorText(err), Severity |-> SeverityError]

httpServerMisconfiguration(domain, detail) ==
    [Name |-> "WebserverMisconfiguration", Detail |-> detail, Severity |-> SeverityError]

aaaaNotWorking(domain, ipv6Address, err) ==
    [Name |-> "AAAANotWorking", Detail |-> ErrorText(err), Severity |-> SeverityError]

aNotWorking(domain, addr, err) ==
    [Name |-> "ANotWorking", Detail |-> ErrorText(err), Severity |-> SeverityError]

\* the internal diagnostic for a failure of the tool itself
internalProblem(message, level) ==
    [Name |-> "InternalProblem", Detail |-> message, Severity |-> level]

\* strings.HasSuffix(e.Error(), "http: server gave HTTP response to HTTPS client")
HasMismatchSuffix(e) ==
    LET t == ErrorText(e) IN t # <<>> /\ t[Len(t)] = MismatchSignature

\* faulty variant: the address family is looked at before the protocol mismatch
translateHTTPError_FamilyFirst(domain, a, e) ==
    IF e.kind = "redirectError" THEN badRedirect(domain, e)
    ELSE IF To4IsNil(a) THEN aaaaNotWorking(domain, IPString(a), e)
    ELSE IF HasMismatchSuffix(e)
      THEN httpServerMisconfiguration(domain,
             <<Lit("Web server is serving the wrong protocol on the wrong port: ")>>
             \o ErrorText(e)
             \o <<Lit(". This may be due to a previous HTTP redirect rather than a webserver misconfiguration.")>>)
    ELSE aNotWorking(domain, IPString(a), e)

\* lines 128-143
translateHTTPError(domain, a, e) ==
    IF e.kind = "redirectError" THEN badRedirect(domain, e)
    ELSE IF HasMismatchSuffix(e)
      THEN httpServerMisconfiguration(domain,
             <<Lit("Web server is serving the wrong protocol on the wrong port: ")>>
             \o ErrorText(e)
             \o <<Lit(". This may be due to a previous HTTP redirect rather than a webserver misconfiguration.")>>)
    ELSE IF To4IsNil(a) THEN aaaaNotWorking(domain, IPString(a), e)
    ELSE aNotWorking(domain, IPString(a), e)

\* faulty variant: the captured policy error is not put back
ErrorToTranslate_Wrapped(err, captured) == err

\* faulty variant: the captured value replaces the error unconditionally
ErrorToTranslate_Always(err, captured) == redirectError(captured)

\* lines 117-119: the error handed to translateHTTPError
ErrorToTranslate(err, captured) ==
    IF captured # NoRedirErr THEN redirectError(captured) ELSE err

\* faulty variant: the response is not captured
CaptureResponse_Never(res, r) == res

\* lines 112-115
CaptureResponse(res, r) ==
    IF r.present THEN [res EXCEPT !.StatusCode = r.StatusCode, !.ServerHeader = r.Server]
    ELSE res

\* ------------------------------------------------------------------------
\* checkHTTP: the state machine
\* ------------------------------------------------------------------------
FirstURL(domain) == [scheme |-> "http", hostname |-> domain, port |-> NoPort]
NoURL == [scheme |-> "", hostname |-> <<>>, port |-> NoPort]

HttpIdle ==
    /\ hpc = "idle"
    /\ hdomain = <<>>
    /\ address = [form |-> "v4", text |-> ""]
    /\ req = NoURL
    /\ via = 0
    /\ redirErr = NoRedirErr
    /\ hops = 0
    /\ policyLog = <<>>
    /\ resp = NoResp
    /\ clErr = NoErr
    /\ dials = {}
    /\ checkRes = [StatusCode |-> 0, ServerHeader |-> "", IP |-> [form |-> "v4", text |-> ""]]
    /\ problem = NoProblem

HttpInit ==
    /\ hpc = "start"
    /\ hdomain \in FetchDomains
    /\ address \in Addresses
    /\ req = NoURL
    /\ via = 0
    /\ redirErr = NoRedirErr
    /\ hops = 0
    /\ policyLog = <<>>
    /\ resp = NoResp
    /\ clErr = NoErr
    /\ dials = {}
    /\ checkRes = [StatusCode |-> 0, ServerHeader |-> "", IP |-> address]
    /\ problem = NoProblem

\* lines 98-109: build the request; a domain no URL can hold fails here
NewRequest ==
    /\ hpc = "start"
    /\ IF hdomain = <<"bad domain">>
         THEN /\ problem' = internalProblem(<<[fmt |-> "Failed to construct validation request: %v",
                                              args |-> <<hdomain>>]>>,
                                            SeverityError)
              /\ hpc' = "done"
              /\ req' = req
         ELSE /\ req' = FirstURL(hdomain)
              /\ hpc' = "send"
              /\ problem' = problem
    /\ UNCHANGED <<hdomain, address, via, redirErr, hops, policyLog, resp, clErr, dials, checkRes>>
    /\ UNCHANGED caaVars
    /\ UNCHANGED exVars

\* cl.Do: the client records the request and asks the transport for a connection;
\* lines 54-60: DialContext dials the pinned address, which succeeds or fails
Dial ==
    /\ hpc = "send"
    /\ LET addr == CanonicalAddr(req)
           target == DialTarget(addr, address)
       IN /\ dials' = dials \cup {[addr |-> addr, target |-> target]}
          /\ \/ /\ hpc' = "await"
                /\ UNCHANGED <<clErr, resp>>
             \/ \E e \in DialErrors(target) :
                  /\ clErr' = UrlError(req, e)
                  /\ resp' = NoResp
                  /\ hpc' = "finish"
    /\ via' = via + 1
    /\ UNCHANGED <<hdomain, address, req, redirErr, hops, policyLog, checkRes, problem>>
    /\ UNCHANGED caaVars
    /\ UNCHANGED exVars

\* cl.Do: the transport reuses an idle connection it dialed for the same address
ReuseConnection ==
    /\ hpc = "send"
    /\ \E d \in dials : d.addr = CanonicalAddr(req)
    /\ hpc' = "await"
    /\ via' = via + 1
    /\ UNCHANGED <<hdomain, address, req, redirErr, hops, policyLog, resp, clErr, dials,
                   checkRes, problem>>
    /\ UNCHANGED caaVars
    /\ UNCHANGED exVars

\* cl.Do: the peer answers with a response that is no redirect
ReceiveFinal ==
    /\ hpc = "await"
    /\ \E r \in FinalResponses : resp' = r
    /\ hpc' = "finish"
    /\ UNCHANGED <<hdomain, address, req, via, redirErr, hops, policyLog, clErr, dials,
                   checkRes, problem>>
    /\ UNCHANGED caaVars
    /\ UNCHANGED exVars

\* cl.Do: the request fails (no answer before the deadline, a broken connection, a
\* plain-HTTP answer to a TLS handshake): Do returns no response and the error
ReceiveError ==
    /\ hpc = "await"
    /\ \E e \in ReadErrors(req) : clErr' = UrlError(req, e)
    /\ resp' = NoResp
    /\ hpc' = "finish"
    /\ UNCHANGED <<hdomain, address, req, via, redirErr, hops, policyLog, dials, checkRes, problem>>
    /\ UNCHANGED caaVars
    /\ UNCHANGED exVars

\* cl.Do: the peer answers with a redirect; lines 66-95: the redirect policy is asked
\* about the next request and either lets it go or stops Do with its error
ReceiveRedirect ==
    /\ hpc = "await"
    /\ \E r \in RedirectResponses, loc \in URLs :
         LET verdict == CheckRedirect(loc, via)
         IN /\ resp' = r
            /\ hops' = hops + 1
            /\ IF verdict # NoRedirErr
                 THEN /\ redirErr' = verdict
                      /\ policyLog' = Append(policyLog, [url |-> loc, hop |-> hops + 1, msg |-> verdict])
                      /\ clErr' = UrlError(loc, redirectError(verdict))
                      /\ hpc' = "finish"
                      /\ req' = req
                 ELSE /\ req' = loc
                      /\ hpc' = "send"
                      /\ UNCHANGED <<redirErr, policyLog, clErr>>
    /\ UNCHANGED <<hdomain, address, via, dials, checkRes, problem>>
    /\ UNCHANGED caaVars
    /\ UNCHANGED exVars

\* lines 111-125: Do has returned
Finish ==
    /\ hpc = "finish"
    /\ checkRes' = CaptureResponse(checkRes, resp)
    /\ problem' = IF clErr # NoErr
                    THEN translateHTTPError(hdomain, address, ErrorToTranslate(clErr, redirErr))
                    ELSE NoProblem
    /\ hpc' = "done"
    /\ UNCHANGED <<hdomain, address, req, via, redirErr, hops, policyLog, resp, clErr, dials>>
    /\ UNCHANGED caaVars
    /\ UNCHANGED exVars

HttpNext ==
    \/ NewRequest
    \/ Dial
    \/ ReuseConnection
    \/ ReceiveFinal
    \/ ReceiveError
    \/ ReceiveRedirect
    \/ Finish

\* ------------------------------------------------------------------------
\* extractIssuerDomain: the state machine of one call
\* ------------------------------------------------------------------------
\* longest CAA value, in tokens
MaxValueLen == 4
Values == UNION {[1..n -> ValueTokens] : n \in 0..MaxValueLen}

ExIdle ==
    /\ xpc = "idle"
    /\ caaValue = <<>>
    /\ extracted = <<>>
    /\ authorized = FALSE

ExInit ==
    /\ xpc = "call"
    /\ caaValue \in Values
    /\ extracted = <<>>
    /\ authorized = FALSE

\* lines 70-74 for one record, calling lines 97-101
Extract ==
    /\ xpc = "call"
    /\ extracted' = extractIssuerDomain(caaValue)
    /\ authorized' = NamesIssuer(<<[isCAA |-> TRUE, Tag |-> "issue", Flag |-> 0,
                                    Value |-> caaValue]>>)
    /\ xpc' = "done"
    /\ caaValue' = caaValue
    /\ UNCHANGED caaVars
    /\ UNCHANGED httpVars

\* ------------------------------------------------------------------------
\* Specifications
\* ------------------------------------------------------------------------
CaaIdle ==
    /\ input = <<>>
    /\ stack = <<>>
    /\ pc = "idle"
    /\ ret = NoRet
    /\ lookups = <<>>
    /\ evals = <<>>

\* one invocation of caaChecker.Check
Init == CaaInit /\ HttpIdle /\ ExIdle
Next == CaaNext
Spec == Init /\ [][Next]_vars

\* one invocation of checkHTTP
InitHTTP == HttpInit /\ CaaIdle /\ ExIdle
NextHTTP == HttpNext
SpecHTTP == InitHTTP /\ [][NextHTTP]_vars
\* the same, where the client and the deadlines of lines 44 and 106 make every
\* pending step happen
SpecHTTPFair == SpecHTTP /\ WF_vars(NextHTTP)

\* one call of extractIssuerDomain, and the test of line 71 on its result
InitExtract == ExInit /\ CaaIdle /\ HttpIdle
NextExtract == Extract
SpecExtract == InitExtract /\ [][NextExtract]_vars

\* ------------------------------------------------------------------------
\* Properties of caaChecker.Check (checked under Spec)
\* ------------------------------------------------------------------------
CaaDone == pc = "done"
WildcardQuery == HasWildcardPrefix(input)
QueriedDomain == StripWildcard(input)
\* the level that decided by evaluating records, when there is one
Decided == evals # <<>>
DecidingLevel == evals[1]
LastLookup == lookups[Len(lookups)]
\* a record with a tag other than issue, issuewild, iodef and bit 0 of Flag set
IsUnrecognizedCritical(r) ==
    r.isCAA /\ r.Tag \notin {"issue", "issuewild", "iodef"} /\ r.Flag % 2 = 1
UnrecognizedCriticalOf(rrs) ==
    SelectSeq2(rrs, {r \in Range(rrs) : IsUnrecognizedCritical(r)})
NamesLetsEncrypt(records) ==
    \E i \in 1..Len(records) : extractIssuerDomain(records[i].Value) = <<LE>>

\* C1: when the first level with records has an unknown-tag record with bit 0 of
\* Flag set, Check returns exactly one Problem, CaaCriticalUnknown at Fatal severity,
\* whose Detail lists every such record, whatever issue/issuewild records are there.
C1_CriticalUnknownBlocks ==
    (CaaDone /\ Decided /\ UnrecognizedCriticalOf(DecidingLevel.rrs) # <<>>) =>
        /\ ret.err = NoErr
        /\ Len(ret.probs) = 1
        /\ ret.probs[1].Name = "CaaCriticalUnknown"
        /\ ret.probs[1].Severity = SeverityFatal
        /\ ret.probs[1].Detail = UnrecognizedCriticalOf(DecidingLevel.rrs)

\* the applicable set of a query over the records of the deciding level
ApplicableSet(wildcard, rrs) ==
    IF wildcard /\ IssuewildOf(rrs) # <<>> THEN IssuewildOf(rrs) ELSE IssueOf(rrs)

\* C3: with no unrecognized-critical record at the deciding level, a wildcard query
\* is decided by the issuewild records when there are any and by the issue records
\* otherwise, a non-wildcard query by the issue records; no Problem iff the applicable
\* set names letsencrypt.org (or non-wildcard with no issue record), else
\* CaaIssuanceNotAllowed at Fatal severity with the applicable set in Detail.
C3_ApplicableSetDecides ==
    (CaaDone /\ Decided /\ UnrecognizedCriticalOf(DecidingLevel.rrs) = <<>>) =>
        LET set == ApplicableSet(WildcardQuery, DecidingLevel.rrs)
            allowed == NamesLetsEncrypt(set)
                       \/ (~WildcardQuery /\ IssueOf(DecidingLevel.rrs) = <<>>)
        IN /\ ret.err = NoErr
           /\ allowed => ret.probs = <<>>
           /\ ~allowed =>
                /\ Len(ret.probs) = 1
                /\ ret.probs[1].Name = "CaaIssuanceNotAllowed"
                /\ ret.probs[1].Severity = SeverityFatal
                /\ ret.probs[1].Detail = set

\* C4: a wildcard query whose records are first found at an ancestor is evaluated
\* there as a wildcard query: issuewild records none of which names letsencrypt.org
\* give CaaIssuanceNotAllowed even when an issue record names it.
C4_WildcardInherited ==
    (/\ CaaDone /\ Decided /\ WildcardQuery
     /\ DecidingLevel.domain # QueriedDomain
     /\ CriticalUnknownOf(DecidingLevel.rrs) = <<>>
     /\ UnrecognizedCriticalOf(DecidingLevel.rrs) = <<>>
     /\ IssuewildOf(DecidingLevel.rrs) # <<>>
     /\ ~NamesLetsEncrypt(IssuewildOf(DecidingLevel.rrs))) =>
        /\ DecidingLevel.wildcard
        /\ Len(ret.probs) = 1
        /\ ret.probs[1].Name = "CaaIssuanceNotAllowed"

\* C5: the walk ends at the first level with any record: every lookup that is
\* followed by another succeeded with no record; and for a.b.example.com where
\* b.example.com is the first to publish records, all issue records naming
\* letsencrypt.org, there are no findings and exactly the two lookups.
C5_WalkStopsAtFirstRecords ==
    /\ \A i \in 1..Len(lookups) :
         i < Len(lookups) => lookups[i].res.err = NoErr /\ lookups[i].res.rrs = <<>>
    /\ (/\ CaaDone
        /\ input = <<"a", "b", "example", "com">>
        /\ Len(lookups) >= 2
        /\ lookups[2].res.rrs # <<>>
        /\ \A r \in Range(lookups[2].res.rrs) :
             r.isCAA /\ r.Tag = "issue" /\ extractIssuerDomain(r.Value) = <<LE>>) =>
           /\ ret = [probs |-> <<>>, err |-> NoErr]
           /\ [i \in 1..Len(lookups) |-> lookups[i].name]
                = << <<"a", "b", "example", "com">>, <<"b", "example", "com">> >>

C5_Witness ==
    /\ CaaDone
    /\ input = <<"a", "b", "example", "com">>
    /\ Len(lookups) = 2
    /\ lookups[2].res.rrs = <<[isCAA |-> TRUE, Tag |-> "issue", Flag |-> 0, Value |-> <<LE>>]>>
    /\ ret.probs = <<>>

\* the chain of names from d up to its public suffix
RECURSIVE ChainToSuffix(_)
ChainToSuffix(d) ==
    IF d = PublicSuffix(d) \/ Len(d) <= 1 THEN <<d>> ELSE <<d>> \o ChainToSuffix(Tail(d))
AllLookupsEmpty ==
    \A i \in 1..Len(lookups) : lookups[i].res.err = NoErr /\ lookups[i].res.rrs = <<>>

\* C7: when the lookup succeeds with no record at the domain and at every ancestor
\* up to the public suffix, Check returns no Problem and a nil error, for wildcard
\* and non-wildcard queries.
C7_NoRecordsIsPermissive ==
    (CaaDone /\ AllLookupsEmpty) =>
        /\ ret = [probs |-> <<>>, err |-> NoErr]
        /\ [i \in 1..Len(lookups) |-> lookups[i].name] = ChainToSuffix(QueriedDomain)

C7_Witness ==
    /\ CaaDone /\ AllLookupsEmpty /\ WildcardQuery
    /\ Len(lookups) = 4
    /\ ret.probs = <<>>

\* C8: a failed lookup, at any level, is the last lookup of the walk, no record
\* evaluation takes place, and Check returns the DNS-lookup-failed Problem of the
\* failing level.
C8_LookupFailureStops ==
    /\ \A i \in 1..Len(lookups) : lookups[i].res.err # NoErr => i = Len(lookups)
    /\ (lookups # <<>> /\ LastLookup.res.err # NoErr) =>
         /\ evals = <<>>
         /\ pc \in {"return", "done"}
         /\ ret.probs = <<dnsLookupFailed(LastLookup.name, "CAA", LastLookup.res.err)>>

C8_Witness ==
    /\ CaaDone
    /\ Len(lookups) = 3
    /\ LastLookup.res.err # NoErr
    /\ Len(ret.probs) = 1

\* C9 as stated: a lookup error that is not a plain "not found" comes out of Check
\* as a non-nil error.
C9_LookupErrorPropagates ==
    (CaaDone /\ lookups # <<>> /\ LastLookup.res.err = [kind |-> "servfail"]) =>
        ret.err # NoErr

\* C9 as amended: Check never returns a non-nil error; a lookup error of any kind,
\* at the queried domain or at an ancestor, is in the returned list as the
\* DNS-lookup-failed Problem carrying that error.
C9_LookupErrorIsAProblem ==
    /\ ret.err = NoErr
    /\ (CaaDone /\ lookups # <<>> /\ LastLookup.res.err # NoErr) =>
         \E i \in 1..Len(ret.probs) :
             /\ ret.probs[i].Name = "DNSLookupFailed"
             /\ ret.probs[i].Detail = <<"CAA", LastLookup.res.err>>

C9_Witness ==
    /\ CaaDone
    /\ Len(lookups) >= 2
    /\ LastLookup.res.err = [kind |-> "servfail"]
    /\ ret.err = NoErr
    /\ Len(ret.probs) = 1

\* ------------------------------------------------------------------------
\* Properties of checkHTTP (checked under SpecHTTP)
\* ------------------------------------------------------------------------
HttpDone == hpc = "done"
TooManyFormat == "Too many (%d) redirects, last redirect was to: %s"
\* a redirect target with an acceptable port, scheme and hostname
Acceptable(u) ==
    /\ u.port \in {NoPort, "80", "443"}
    /\ u.scheme \in {"http", "https", "HTTP"}
    /\ ~HasWellKnownSuffix(u.hostname)

\* C2 as stated: none of the first 10 redirect hops is rejected when its target is
\* acceptable; only an 11th hop gets the "too many redirects" diagnostic.
C2_TenHopsFollowed ==
    \A i \in 1..Len(policyLog) :
        (Acceptable(policyLog[i].url) \/ policyLog[i].msg.fmt = TooManyFormat)
            => policyLog[i].hop >= 11

\* C2 as amended: 9 redirect hops with acceptable targets are followed and the fetch
\* then succeeds with an empty Problem; the 10th redirect hop is rejected whatever
\* its target, with the "too many redirects" message naming 10 and the URL of that
\* 10th target; no 11th hop happens.
C2_NineHopsFollowed ==
    /\ hops <= 10
    /\ \A i \in 1..Len(policyLog) :
         /\ Acceptable(policyLog[i].url) => policyLog[i].hop = 10
         /\ policyLog[i].hop = 10 <=> policyLog[i].msg.fmt = TooManyFormat
         /\ policyLog[i].hop = 10 =>
              policyLog[i].msg.args = <<10, URLString(policyLog[i].url)>>
    /\ (HttpDone /\ hops = 10) =>
         /\ problem.Name = "BadRedirect"
         /\ problem.Detail = <<policyLog[1].msg>>
    /\ (HttpDone /\ hops = 9 /\ clErr = NoErr) =>
         /\ problem = NoProblem
         /\ via = 10

C2_Witness ==
    /\ HttpDone
    /\ hops = 10
    /\ Acceptable(policyLog[1].url)
    /\ problem.Name = "BadRedirect"
    /\ problem.Detail[1].fmt = TooManyFormat

\* C6: every dial of an invocation goes to the address passed in, with the port of
\* the address the transport asked for, in brackets iff the address is IPv6.
C6_DialsPinnedAddress ==
    \A d \in dials :
        /\ d.addr.port \in {"80", "443"}
        /\ d.target = IF address.form = "v6"
                        THEN <<"[", address.text, "]:", d.addr.port>>
                        ELSE <<address.text, ":", d.addr.port>>

C6_Witness ==
    /\ address.form = "v6"
    /\ \E d \in dials : d.addr.host = <<"other", "org">> /\ d.addr.port = "443"
    /\ \E d \in dials : d.addr.host = <<"example", "com">> /\ d.addr.port = "80"

\* C10: when the redirect policy rejected a hop, checkHTTP returns BadRedirect at
\* Error severity with exactly the policy's message as Detail, although Do returned
\* the rejection wrapped; and BadRedirect is returned only then.
C10_BadRedirectIsThePolicyError ==
    HttpDone =>
        /\ policyLog # <<>> =>
             /\ Len(policyLog) = 1
             /\ clErr.kind = "urlError"
             /\ problem.Name = "BadRedirect"
             /\ problem.Severity = SeverityError
             /\ problem.Detail = <<policyLog[1].msg>>
        /\ problem.Name = "BadRedirect" => policyLog # <<>>

C10_Witness ==
    /\ HttpDone
    /\ policyLog # <<>>
    /\ policyLog[1].hop = 2
    /\ policyLog[1].msg.fmt = "Bad scheme provided when fetching %s: %s"
    /\ clErr.kind = "urlError"
    /\ problem.Name = "BadRedirect"

\* ------------------------------------------------------------------------
\* Further properties of checkHTTP (checked under SpecHTTP)
\* ------------------------------------------------------------------------
TrailingSlashFormat == "It appears that a redirect was generated by your web server that is missing a trailing slash after your domain name: %v. Check your web server configuration and .htaccess for Redirect/RedirectMatch/RewriteRule."
\* a hostname that ends with ".well-known"
EndsInWellKnown(hostname) ==
    Len(hostname) >= 2 /\ hostname[Len(hostname)] = "well-known"
PortAllowed(u) == u.port \in {NoPort, "80", "443"}
SchemeAllowed(u) == u.scheme \in {"http", "https", "HTTP"}

\* C11: a redirect to a hostname ending in ".well-known", within the hop limit and
\* with an allowed port and scheme, is never followed, and is reported with the
\* message naming the missing trailing slash after the domain name (and the target).
C11_WellKnownRedirect ==
    /\ ~EndsInWellKnown(req.hostname)
    /\ \A i \in 1..Len(policyLog) :
         LET e == policyLog[i] IN
         (EndsInWellKnown(e.url.hostname) /\ e.hop < 10 /\ PortAllowed(e.url)
          /\ SchemeAllowed(e.url)) =>
            /\ e.msg = [fmt |-> TrailingSlashFormat, args |-> <<e.url>>]
            /\ HttpDone =>
                 /\ problem.Name = "BadRedirect"
                 /\ problem.Detail = <<[fmt |-> TrailingSlashFormat, args |-> <<e.url>>]>>

C11_Witness ==
    /\ HttpDone
    /\ policyLog # <<>>
    /\ policyLog[1].hop = 3
    /\ policyLog[1].url = [scheme |-> "https", hostname |-> <<"example", "com", "well-known">>,
                           port |-> "443"]
    /\ problem.Detail[1].fmt = TrailingSlashFormat

\* whether cl.Do was called in this invocation
DoCalled == via >= 1

\* C12: the result's IP is always the address passed in; once checkHTTP returned
\* after calling the client, a response handed back by the client, with or without
\* an error, has its status code and Server header in the result, and the Problem
\* is empty iff the client reported no error.
C12_ResultCarriesResponse ==
    /\ hpc # "idle" => checkRes.IP = address
    /\ (HttpDone /\ DoCalled) =>
         /\ resp.present =>
              /\ checkRes.StatusCode = resp.StatusCode
              /\ checkRes.ServerHeader = resp.Server
         /\ (problem.Name = "") <=> (clErr = NoErr)
         /\ (problem = NoProblem) <=> (clErr = NoErr)

C12_Witness ==
    /\ HttpDone
    /\ clErr # NoErr
    /\ resp.present
    /\ checkRes.StatusCode = 302
    /\ checkRes.ServerHeader = "nginx"
    /\ problem.Name = "BadRedirect"

BadPortFormat == "Bad port number provided when fetching %s: %s"
BadSchemeFormat == "Bad scheme provided when fetching %s: %s"
\* the message of the earliest rule a hop violates, in the order hop count, port,
\* scheme, hostname suffix; "" when it violates none
FirstViolatedRule(u, hop) ==
    IF hop >= 10 THEN TooManyFormat
    ELSE IF ~PortAllowed(u) THEN BadPortFormat
    ELSE IF ~SchemeAllowed(u) THEN BadSchemeFormat
    ELSE IF EndsInWellKnown(u.hostname) THEN TrailingSlashFormat
    ELSE ""

\* C15: a rejected hop carries the message of the earliest rule it violates in the
\* order hop count, explicit port, scheme, hostname suffix; a hop with no explicit
\* port is never rejected for its port; a hop is followed iff it violates no rule.
C15_RulesInOrder ==
    /\ \A i \in 1..Len(policyLog) :
         /\ policyLog[i].msg.fmt = FirstViolatedRule(policyLog[i].url, policyLog[i].hop)
         /\ policyLog[i].msg.fmt # ""
         /\ policyLog[i].url.port = NoPort => policyLog[i].msg.fmt # BadPortFormat
    /\ (hops >= 1 /\ policyLog = <<>>) => FirstViolatedRule(req, hops) = ""
    /\ Len(policyLog) <= 1

C15_Witness ==
    /\ HttpDone
    /\ policyLog # <<>>
    /\ policyLog[1].hop = 2
    /\ policyLog[1].url = [scheme |-> "ftp", hostname |-> <<"example", "com", "well-known">>,
                           port |-> "8080"]
    /\ policyLog[1].msg.fmt = BadPortFormat
    /\ problem.Detail = <<policyLog[1].msg>>

\* the client's error is the plain-HTTP-answer-to-HTTPS error
IsProtocolMismatch(e) ==
    /\ e.kind = "urlError"
    /\ e.cause.kind = "netError"
    /\ e.cause.text = <<Lit("http: server gave HTTP response to HTTPS client")>>

\* C16: an error that did not come from the redirect policy gives
\* WebserverMisconfiguration when it carries the protocol-mismatch signature, for
\* IPv4 and IPv6 alike; otherwise AAAANotWorking for an IPv6 address and ANotWorking
\* for an IPv4 address, with the raw error text as Detail; always at Error severity.
C16_ErrorClassification ==
    (HttpDone /\ clErr # NoErr) =>
        /\ problem.Severity = SeverityError
        /\ policyLog = <<>> =>
             IF IsProtocolMismatch(clErr)
               THEN problem.Name = "WebserverMisconfiguration"
             ELSE IF address.form = "v6"
               THEN /\ problem.Name = "AAAANotWorking"
                    /\ problem.Detail = ErrorText(clErr)
             ELSE /\ problem.Name = "ANotWorking"
                  /\ problem.Detail = ErrorText(clErr)

C16_Witness ==
    /\ HttpDone
    /\ address.form = "v6"
    /\ hops = 1
    /\ policyLog = <<>>
    /\ IsProtocolMismatch(clErr)
    /\ problem.Name = "WebserverMisconfiguration"

\* ------------------------------------------------------------------------
\* Further properties of caaChecker.Check (checked under Spec)
\* ------------------------------------------------------------------------
\* C13: for a non-wildcard query whose deciding level holds only issuewild records,
\* Check returns no findings, and the deciding level is the last name looked up.
C13_OnlyIssuewildIsPermissive ==
    (/\ CaaDone /\ Decided /\ ~WildcardQuery
     /\ \A r \in Range(DecidingLevel.rrs) : r.isCAA /\ r.Tag = "issuewild") =>
        /\ ret = [probs |-> <<>>, err |-> NoErr]
        /\ LastLookup.name = DecidingLevel.domain
        /\ Len(evals) = 1

C13_Witness ==
    /\ CaaDone /\ Decided /\ ~WildcardQuery
    /\ DecidingLevel.domain = QueriedDomain
    /\ DecidingLevel.rrs = <<[isCAA |-> TRUE, Tag |-> "issuewild", Flag |-> 0, Value |-> <<"x">>]>>
    /\ ret.probs = <<>>

\* ------------------------------------------------------------------------
\* Properties of extractIssuerDomain (checked under SpecExtract)
\* ------------------------------------------------------------------------
Blank == {" ", "\t"}
\* r is the text of v before its first ";" (all of v when it has none) without its
\* leading and trailing spaces and tabs
IsIssuerDomainOf(r, v) ==
    \E i \in 0..Len(v) :
        /\ i = Len(v) \/ v[i + 1] = ";"
        /\ \A k \in 1..i : v[k] # ";"
        /\ \E a \in 0..i, b \in 0..i :
             /\ a + b <= i
             /\ r = SubSeq(v, a + 1, i - b)
             /\ \A k \in 1..a : v[k] \in Blank
             /\ \A k \in (i - b + 1)..i : v[k] \in Blank
             /\ r = <<>> \/ (r[1] \notin Blank /\ r[Len(r)] \notin Blank)

\* C14: extractIssuerDomain returns the text before the first ";" with leading and
\* trailing spaces and tabs removed; "letsencrypt.org; validationmethods=http-01"
\* gives exactly "letsencrypt.org"; and a record authorizes issuance iff that text
\* is exactly the issuer domain.
C14_ExtractIssuerDomain ==
    xpc = "done" =>
        /\ IsIssuerDomainOf(extracted, caaValue)
        /\ caaValue = <<LE, ";", " ", "validationmethods=http-01">> => extracted = <<LE>>
        /\ authorized <=> (extracted = <<LE>>)
        /\ authorized <=> IsIssuerDomainOf(<<LE>>, caaValue)

C14_Witness ==
    /\ xpc = "done"
    /\ caaValue = <<LE, ";", " ", "validationmethods=http-01">>
    /\ extracted = <<LE>>
    /\ authorized

\* C17: for a wildcard query whose deciding level has records but no issue and no
\* issuewild record (and no unrecognized-critical one), Check returns
\* CaaIssuanceNotAllowed at Fatal severity with an empty applicable set; the same
\* records give no finding for a non-wildcard query.
C17_WildcardNeedsAuthorization ==
    (/\ CaaDone /\ Decided
     /\ IssueOf(DecidingLevel.rrs) = <<>> /\ IssuewildOf(DecidingLevel.rrs) = <<>>
     /\ UnrecognizedCriticalOf(DecidingLevel.rrs) = <<>>) =>
        IF WildcardQuery
          THEN /\ Len(ret.probs) = 1
               /\ ret.probs[1].Name = "CaaIssuanceNotAllowed"
               /\ ret.probs[1].Severity = SeverityFatal
               /\ ret.probs[1].Detail = <<>>
          ELSE ret.probs = <<>>

\* the names looked up so far, in order
LookedUp == [i \in 1..Len(lookups) |-> lookups[i].name]

\* a measure of the work left: the labels still to walk while going up, the
\* invocations still to return from while coming back
WorkLeft ==
    IF pc = "lookup" THEN 2 * Len(Top.domain) + 1 + 2 * MaxLabels + 2
    ELSE IF pc \in {"evaluate", "walk"} THEN 2 * Len(Top.domain) + 2 * MaxLabels + 2
    ELSE IF pc = "return" THEN Len(stack)
    ELSE 0

\* C19: Check terminates for every input (every step reduces the work left, and
\* until Check has returned either a lookup or an evaluation is pending, which
\* nothing blocks, or another step is possible); the names looked up are, in order
\* and without repetition, the first names of the chain from the wildcard-stripped
\* domain to its public suffix; a lookup is followed by another only when it
\* succeeded with no record.
C19_TerminatesWithinChain ==
    /\ [][WorkLeft' < WorkLeft]_vars
    /\ [](/\ WorkLeft >= 0
          /\ \/ CaaDone
             \/ pc \in {"lookup", "evaluate"}
             \/ ENABLED (Recurse \/ ReturnAtSuffix \/ ReturnToCaller \/ ReturnResult))
    /\ [](LET chain == ChainToSuffix(QueriedDomain)
          IN /\ Len(LookedUp) <= Len(chain)
             /\ LookedUp = SubSeq(chain, 1, Len(LookedUp))
             /\ \A i, j \in 1..Len(LookedUp) : i # j => LookedUp[i] # LookedUp[j]
             /\ \A i \in 1..(Len(lookups) - 1) :
                  lookups[i].res = [rrs |-> <<>>, err |-> NoErr])

C19_Witness ==
    /\ CaaDone
    /\ input = <<"*", "a", "example", "co", "uk">>
    /\ LookedUp = << <<"a", "example", "co", "uk">>, <<"example", "co", "uk">>, <<"co", "uk">> >>

\* C20: Check returns at most one Problem; the invocations that recursed hold no
\* Problem of their own; and the value returned by the deciding level is passed
\* down to the outermost caller unchanged.
C20_AtMostOneProblem ==
    /\ [](/\ Len(ret.probs) <= 1
          /\ \A i \in 1..Len(stack) : stack[i].probs = <<>>
          /\ ret.probs # <<>> =>
               /\ ret.probs[1].Domain = LastLookup.name
               /\ ret.probs[1].Name \in {"DNSLookupFailed", "CaaCriticalUnknown",
                                         "CaaIssuanceNotAllowed"})
    /\ [][pc = "return" => ret' = ret]_vars

C20_Witness ==
    /\ CaaDone
    /\ Len(lookups) = 4
    /\ Len(ret.probs) = 1
    /\ ret.probs[1].Name = "CaaCriticalUnknown"

\* the client's error is a dial or request timeout
IsTimeout(e) ==
    /\ e.kind = "urlError"
    /\ e.cause.kind = "netError"
    /\ e.cause.text[Len(e.cause.text)] \in {Lit("i/o timeout"), Lit("context deadline exceeded")}

\* C18: every invocation of checkHTTP returns; when the dial or the request timed
\* out, at the first request or after redirects, the Problem is ANotWorking for an
\* IPv4 address and AAAANotWorking for an IPv6 address, never BadRedirect.
C18_ReturnsDespiteHungPeer ==
    /\ <>HttpDone
    /\ []((HttpDone /\ clErr # NoErr /\ IsTimeout(clErr)) =>
            /\ problem.Name = (IF address.form = "v6" THEN "AAAANotWorking" ELSE "ANotWorking")
            /\ problem.Severity = SeverityError)

C18_Witness ==
    /\ HttpDone
    /\ hops = 2
    /\ IsTimeout(clErr)
    /\ problem.Name = "AAAANotWorking"

====
